---- MODULE Spec2Model ----
(***************************************************************************)
(* FHEAuction: a sealed-bid auction manager over an encrypted-arithmetic   *)
(* engine.  The contract state (auctionCount, auctions), the engine's      *)
(* ciphertext store and ACL, the event log and the block clock are the     *)
(* variables; every external function of the contract is one action.      *)
(***************************************************************************)
EXTENDS Integers, Sequences, FiniteSets, TLC

\* ------------------------------------------------------------------ bounds

MaxAuctions == 2
MaxTx == 3
MaxValue == 1

\* ------------------------------------------------------- program constants

Window == 600

\* ------------------------------------------------------------------ inputs

Core == "core"
ZeroAddress == "zero"
Callers == {"alice", "bob"}
Principals == Callers \cup {Core}
Names == {"Widget", ""}
Values == 0..MaxValue
IdSpace == 0..MaxAuctions
\* The block times at which calls are made: creation time and the end of the window.
BlockTimes == {0, Window}
NoValue == 0 - 1
\* createAuction and the views never read msg.sender: whoever calls them gets the
\* same result.
AnyCaller == "any"

VARIABLES
  auctionCount,   \* uint256 public auctionCount
  auctions,       \* mapping(uint256 => Auction)
  plain,          \* engine: handle -> ciphertext (type, plaintext, origin of a bid value)
  acl,            \* engine: handle -> principals allowed to decrypt / operate
  events,         \* the log of emitted events
  last,           \* the latest committed transaction: its inputs and what it returned
  now,            \* block.timestamp
  txs,            \* number of committed state-changing transactions so far
  history,        \* the bids evaluated so far: auction, caller, plaintext, block time
  twin,           \* a second run, fed the same calls with other bid plaintexts
  client          \* the off-chain programs: the bid task and the web front end

vars ==
  <<auctionCount, auctions, plain, acl, events, last, now, txs, history, twin,
    client>>

\* ----------------------------------------------------------- the world

NoOut == [h |-> 0, name |-> "", n |-> 0]

EmptyAuction ==
  [name |-> "", startPrice |-> 0, highestBid |-> 0, highestBidder |-> 0,
   lastBidTime |-> 0, createdAt |-> 0, created |-> FALSE]

NoCall ==
  [op |-> "none", id |-> 0, caller |-> Core, value |-> NoValue, ok |-> TRUE,
   err |-> "", out |-> NoOut]

InitWorld ==
  [auctionCount |-> 0,
   auctions |-> [i \in IdSpace |-> EmptyAuction],
   plain |-> <<>>,
   acl |-> <<>>,
   events |-> <<>>,
   last |-> NoCall]

World ==
  [auctionCount |-> auctionCount, auctions |-> auctions, plain |-> plain,
   acl |-> acl, events |-> events, last |-> last]

\* ----------------------------------------------------------- the engine

\* The handle of the ciphertext the engine produced last.
Top(w) == Len(w.plain)

NewCt(w, type, val, by) ==
  [w EXCEPT !.plain = Append(@, [type |-> type, val |-> val, by |-> by]),
            !.acl = Append(@, {})]

asEuint32(w, v) == NewCt(w, "u32", v, "none")

\* Block times stay far below 2^64, so the euint64 arithmetic never wraps here.
asEuint64(w, v) == NewCt(w, "u64", v, "none")

asEaddress(w, p) == NewCt(w, "addr", p, "none")

fromExternal(w, v, sender) == NewCt(w, "u32", v, sender)

\* Faulty variant: the comparison the wrong way round.
FHElt(w, x, y) == NewCt(w, "bool", w.plain[x].val < w.plain[y].val, "none")

\* Faulty variant: a non-strict comparison, so that a tie displaces the leader.
FHEge(w, x, y) == NewCt(w, "bool", w.plain[x].val >= w.plain[y].val, "none")

FHEgt(w, x, y) == NewCt(w, "bool", w.plain[x].val > w.plain[y].val, "none")

FHEle(w, x, y) == NewCt(w, "bool", w.plain[x].val <= w.plain[y].val, "none")

FHEadd(w, x, y) ==
  NewCt(w, "u64", w.plain[x].val + w.plain[y].val, "none")

\* Faulty variant: the selection ignores its condition and takes the first operand.
FHEselect_first(w, c, x, y) ==
  NewCt(w, w.plain[x].type, w.plain[x].val, w.plain[x].by)

FHEselect(w, c, x, y) ==
  LET src == IF w.plain[c].val THEN x ELSE y
  IN NewCt(w, w.plain[src].type, w.plain[src].val, w.plain[src].by)

\* Faulty variant: a grant on one handle withdraws the grantee's other grants.
allow_transfer(w, h, p) ==
  [w EXCEPT !.acl = [k \in DOMAIN @ |-> IF k = h THEN @[k] \cup {p} ELSE @[k] \ {p}]]

allow(w, h, p) == [w EXCEPT !.acl[h] = @ \cup {p}]

allowThis(w, h) == allow(w, h, Core)

\* ----------------------------------------------------------- the contract

\* Faulty variant: the event is not logged.
emit_lost(w, kind, id, arg) == w

emit(w, kind, id, arg) ==
  [w EXCEPT !.events = Append(@, [kind |-> kind, id |-> id, arg |-> arg])]

\* A failed require / a rejected import: the transaction reverts, nothing is kept.
Revert(w, op, id, err) ==
  [w EXCEPT !.last = [op |-> op, id |-> id, caller |-> AnyCaller, value |-> NoValue,
                      ok |-> FALSE, err |-> err, out |-> NoOut]]

Return(w, op, id, caller, value, out) ==
  [w EXCEPT !.last = [op |-> op, id |-> id, caller |-> caller, value |-> value,
                      ok |-> TRUE, err |-> "", out |-> out]]

\* Allow this contract to keep operating on encrypted fields.
createAllowThis(w, id) ==
  LET w1 == allowThis(w, w.auctions[id].startPrice)
      w2 == allowThis(w1, w1.auctions[id].highestBid)
      w3 == allowThis(w2, w2.auctions[id].highestBidder)
  IN allowThis(w3, w3.auctions[id].lastBidTime)

\* Faulty variant: the id is taken before the counter is incremented
\* (auctionCount++ in place of ++auctionCount).
createAuction_postIncrement(w, name, startPrice, caller, t) ==
  LET id == w.auctionCount
      w1 == asEuint32(w, startPrice)
      encStart == Top(w1)
      w2 == asEaddress(w1, ZeroAddress)
      encBidder == Top(w2)
      w3 == asEuint64(w2, t)
      encNow == Top(w3)
      w4 == [w3 EXCEPT !.auctionCount = id + 1,
                       !.auctions[id] =
                          [name |-> name, startPrice |-> encStart,
                           highestBid |-> encStart, highestBidder |-> encBidder,
                           lastBidTime |-> encNow, createdAt |-> t,
                           created |-> TRUE]]
      w5 == createAllowThis(w4, id)
      w6 == emit(w5, "AuctionCreated", id, name)
  IN Return(w6, "createAuction", id, AnyCaller, NoValue, [NoOut EXCEPT !.n = id])

\* Faulty variant: the creator is granted the start price and recorded as the
\* first leader.
createAuction_creatorLeads(w, name, startPrice, caller, t) ==
  LET id == w.auctionCount + 1
      w1 == asEuint32(w, startPrice)
      encStart == Top(w1)
      w2 == asEaddress(w1, caller)
      encBidder == Top(w2)
      w3 == asEuint64(w2, t)
      encNow == Top(w3)
      w4 == [w3 EXCEPT !.auctionCount = id,
                       !.auctions[id] =
                          [name |-> name, startPrice |-> encStart,
                           highestBid |-> encStart, highestBidder |-> encBidder,
                           lastBidTime |-> encNow, createdAt |-> t,
                           created |-> TRUE]]
      w5 == allow(createAllowThis(w4, id), encStart, caller)
      w6 == emit(w5, "AuctionCreated", id, name)
  IN Return(w6, "createAuction", id, AnyCaller, NoValue, [NoOut EXCEPT !.n = id])

createAuction(w, name, startPrice, caller, t) ==
  LET id == w.auctionCount + 1
      w1 == asEuint32(w, startPrice)
      encStart == Top(w1)
      encHighest == encStart
      w2 == asEaddress(w1, ZeroAddress)
      encBidder == Top(w2)
      w3 == asEuint64(w2, t)
      encNow == Top(w3)
      w4 == [w3 EXCEPT !.auctionCount = id,
                       !.auctions[id] =
                          [name |-> name, startPrice |-> encStart,
                           highestBid |-> encHighest, highestBidder |-> encBidder,
                           lastBidTime |-> encNow, createdAt |-> t,
                           created |-> TRUE]]
      w5 == createAllowThis(w4, id)
      w6 == emit(w5, "AuctionCreated", id, name)
  IN Return(w6, "createAuction", id, AnyCaller, NoValue, [NoOut EXCEPT !.n = id])

\* Faulty variant: the existence check is missing, so an unset slot answers with
\* its default values.
getAuctionInfo_unchecked(w, id) ==
  Return(w, "getAuctionInfo", id, AnyCaller, NoValue,
         [NoOut EXCEPT !.name = w.auctions[id].name,
                       !.n = w.auctions[id].createdAt])

getAuctionInfo(w, id) ==
  IF ~w.auctions[id].created
  THEN Revert(w, "getAuctionInfo", id, "AUCTION_NOT_FOUND")
  ELSE Return(w, "getAuctionInfo", id, AnyCaller, NoValue,
              [NoOut EXCEPT !.name = w.auctions[id].name,
                            !.n = w.auctions[id].createdAt])

getEncryptedHighestBidder(w, id) ==
  IF ~w.auctions[id].created
  THEN Revert(w, "getEncryptedHighestBidder", id, "AUCTION_NOT_FOUND")
  ELSE Return(w, "getEncryptedHighestBidder", id, AnyCaller, NoValue,
              [NoOut EXCEPT !.h = w.auctions[id].highestBidder])

\* Faulty variant: the view turned into a transaction that opens the handle to
\* whoever asks.
getEncryptedHighestBid_granting(w, id) ==
  IF ~w.auctions[id].created
  THEN Revert(w, "getEncryptedHighestBid", id, "AUCTION_NOT_FOUND")
  ELSE Return(allow(w, w.auctions[id].highestBid, AnyCaller),
              "getEncryptedHighestBid", id, AnyCaller, NoValue,
              [NoOut EXCEPT !.h = w.auctions[id].highestBid])

getEncryptedHighestBid(w, id) ==
  IF ~w.auctions[id].created
  THEN Revert(w, "getEncryptedHighestBid", id, "AUCTION_NOT_FOUND")
  ELSE Return(w, "getEncryptedHighestBid", id, AnyCaller, NoValue,
              [NoOut EXCEPT !.h = w.auctions[id].highestBid])

\* Faulty variant: lastBidTime is left out of the update.
bidSelect_noTime(w, id, isHighest, encBid, caller, t) ==
  LET w1 == FHEselect(w, isHighest, encBid, w.auctions[id].highestBid)
      w2 == [w1 EXCEPT !.auctions[id].highestBid = Top(w1)]
      w3 == asEaddress(w2, caller)
      w4 == FHEselect(w3, isHighest, Top(w3), w3.auctions[id].highestBidder)
  IN [w4 EXCEPT !.auctions[id].highestBidder = Top(w4)]

\* Faulty variant: the update sits under a branch on the decrypted comparison.
bidSelect_branching(w, id, isHighest, encBid, caller, t) ==
  IF w.plain[isHighest].val
  THEN LET w1 == asEaddress(w, caller)
           w2 == asEuint64(w1, t)
       IN [w2 EXCEPT !.auctions[id].highestBid = encBid,
                     !.auctions[id].highestBidder = Top(w1),
                     !.auctions[id].lastBidTime = Top(w2)]
  ELSE w

\* Faulty variant: the start price follows the leading bid.
bidSelect_movingFloor(w, id, isHighest, encBid, caller, t) ==
  LET w1 == FHEselect(w, isHighest, encBid, w.auctions[id].highestBid)
      w2 == [w1 EXCEPT !.auctions[id].highestBid = Top(w1),
                       !.auctions[id].startPrice = Top(w1)]
      w3 == asEaddress(w2, caller)
      w4 == FHEselect(w3, isHighest, Top(w3), w3.auctions[id].highestBidder)
      w5 == [w4 EXCEPT !.auctions[id].highestBidder = Top(w4)]
      w6 == asEuint64(w5, t)
      w7 == FHEselect(w6, isHighest, Top(w6), w6.auctions[id].lastBidTime)
  IN [w7 EXCEPT !.auctions[id].lastBidTime = Top(w7)]

\* Conditionally update encrypted fields without revealing the condition.
bidSelect(w, id, isHighest, encBid, caller, t) ==
  LET w1 == FHEselect(w, isHighest, encBid, w.auctions[id].highestBid)
      w2 == [w1 EXCEPT !.auctions[id].highestBid = Top(w1)]
      w3 == asEaddress(w2, caller)
      w4 == FHEselect(w3, isHighest, Top(w3), w3.auctions[id].highestBidder)
      w5 == [w4 EXCEPT !.auctions[id].highestBidder = Top(w4)]
      w6 == asEuint64(w5, t)
      w7 == FHEselect(w6, isHighest, Top(w6), w6.auctions[id].lastBidTime)
  IN [w7 EXCEPT !.auctions[id].lastBidTime = Top(w7)]

\* Faulty variant: the new highestBidder handle is not re-granted to the contract.
bidAllowThis_noBidder(w, id) ==
  LET w1 == allowThis(w, w.auctions[id].highestBid)
  IN allowThis(w1, w1.auctions[id].lastBidTime)

\* Maintain ACL to allow continued contract operations on ciphertexts.
bidAllowThis(w, id) ==
  LET w1 == allowThis(w, w.auctions[id].highestBid)
      w2 == allowThis(w1, w1.auctions[id].highestBidder)
  IN allowThis(w2, w2.auctions[id].lastBidTime)

\* Faulty variant: only the outcome is granted, the leader fields are not.
bidAllowCaller_outcomeOnly(w, id, isHighest, caller) == allow(w, isHighest, caller)

\* Faulty variant: the leader fields are granted, the outcome is not.
bidAllowCaller_noOutcome(w, id, isHighest, caller) ==
  LET w1 == allow(w, w.auctions[id].highestBid, caller)
      w2 == allow(w1, w1.auctions[id].highestBidder, caller)
  IN allow(w2, w2.auctions[id].lastBidTime, caller)

\* Allow caller to decrypt the outcome and the current encrypted fields.
bidAllowCaller(w, id, isHighest, caller) ==
  LET w1 == allow(w, isHighest, caller)
      w2 == allow(w1, w1.auctions[id].highestBid, caller)
      w3 == allow(w2, w2.auctions[id].highestBidder, caller)
  IN allow(w3, w3.auctions[id].lastBidTime, caller)

\* Faulty variant: the input is imported without its proof being verified.
bid_unverified(w, id, value, proofOk, caller, t) ==
  IF ~w.auctions[id].created
  THEN Revert(w, "bid", id, "AUCTION_NOT_FOUND")
  ELSE
    LET w1 == fromExternal(w, value, caller)
        encBid == Top(w1)
        w2 == FHEgt(w1, encBid, w1.auctions[id].highestBid)
        isHighest == Top(w2)
        w3 == bidSelect(w2, id, isHighest, encBid, caller, t)
        w4 == bidAllowThis(w3, id)
        w5 == bidAllowCaller(w4, id, isHighest, caller)
        w6 == emit(w5, "BidSubmitted", id, caller)
    IN Return(w6, "bid", id, caller, value, [NoOut EXCEPT !.h = isHighest])

\* Faulty variant: a bid arriving once the window has elapsed is turned away.
bid_closing(w, id, value, proofOk, caller, t) ==
  IF ~w.auctions[id].created
  THEN Revert(w, "bid", id, "AUCTION_NOT_FOUND")
  ELSE IF ~proofOk
  THEN Revert(w, "bid", id, "INVALID_PROOF")
  ELSE IF w.plain[w.auctions[id].lastBidTime].val + Window <= t
  THEN Revert(w, "bid", id, "AUCTION_ENDED")
  ELSE
    LET w1 == fromExternal(w, value, caller)
        encBid == Top(w1)
        w2 == FHEgt(w1, encBid, w1.auctions[id].highestBid)
        isHighest == Top(w2)
        w3 == bidSelect(w2, id, isHighest, encBid, caller, t)
        w4 == bidAllowThis(w3, id)
        w5 == bidAllowCaller(w4, id, isHighest, caller)
        w6 == emit(w5, "BidSubmitted", id, caller)
    IN Return(w6, "bid", id, caller, value, [NoOut EXCEPT !.h = isHighest])

bid(w, id, value, proofOk, caller, t) ==
  IF ~w.auctions[id].created
  THEN Revert(w, "bid", id, "AUCTION_NOT_FOUND")
  ELSE IF ~proofOk
  THEN Revert(w, "bid", id, "INVALID_PROOF")
  ELSE
    LET w1 == fromExternal(w, value, caller)
        encBid == Top(w1)
        w2 == FHEgt(w1, encBid, w1.auctions[id].highestBid)
        isHighest == Top(w2)
        w3 == bidSelect(w2, id, isHighest, encBid, caller, t)
        w4 == bidAllowThis(w3, id)
        w5 == bidAllowCaller(w4, id, isHighest, caller)
        w6 == emit(w5, "BidSubmitted", id, caller)
    IN Return(w6, "bid", id, caller, value, [NoOut EXCEPT !.h = isHighest])

\* Faulty variant: the computed deadline is written back as lastBidTime.
checkEnded_extending(w, id, caller, t) ==
  IF ~w.auctions[id].created
  THEN Revert(w, "checkEnded", id, "AUCTION_NOT_FOUND")
  ELSE
    LET a == w.auctions[id]
        w1 == asEuint64(w, Window)
        w2 == FHEadd(w1, a.lastBidTime, Top(w1))
        deadline == Top(w2)
        w3 == asEuint64(w2, t)
        w4 == FHEle(w3, deadline, Top(w3))
        ended == Top(w4)
        w5 == allow(w4, ended, caller)
        w6 == [w5 EXCEPT !.auctions[id].lastBidTime = deadline]
    IN Return(w6, "checkEnded", id, caller, NoValue, [NoOut EXCEPT !.h = ended])

checkEnded(w, id, caller, t) ==
  IF ~w.auctions[id].created
  THEN Revert(w, "checkEnded", id, "AUCTION_NOT_FOUND")
  ELSE
    LET a == w.auctions[id]
        w1 == asEuint64(w, Window)
        w2 == FHEadd(w1, a.lastBidTime, Top(w1))
        deadline == Top(w2)
        w3 == asEuint64(w2, t)
        w4 == FHEle(w3, deadline, Top(w3))
        ended == Top(w4)
        w5 == allow(w4, ended, caller)
    IN Return(w5, "checkEnded", id, caller, NoValue, [NoOut EXCEPT !.h = ended])

\* ----------------------------------------------------------- the clients

\* The account the task and the browser wallet sign with.
Signer == "alice"

\* The task auction:bid: its position, its arguments, the plaintext of the
\* isHighest its transaction produced, the handle its static call returned with
\* the plaintext that handle stands for, and the value it prints.
NoTask ==
  [pc |-> "idle", id |-> 0, value |-> NoValue, outcome |-> FALSE,
   returned |-> 0, simulated |-> FALSE, clear |-> FALSE]

\* An AuctionCard: the auction it was rendered for and the handles it got as
\* props; the bid form (position of handleBid, the amount, the handle the static
\* call returned with the plaintext it stands for, the plaintext of the isHighest
\* of the committed bid, bidStatus, bidError, isPlacingBid); the decryptions
\* (per field: the handle a running decryption was started with, what is
\* displayed and the handle it was decrypted from, decryptError).
Fields == {"highest", "time"}

NoShow == [kind |-> "null", val |-> 0, of |-> 0]

NoCard ==
  [mounted |-> FALSE, id |-> 0, props |-> [f \in Fields |-> 0],
   pc |-> "idle", value |-> NoValue, returned |-> 0, simulated |-> FALSE,
   outcome |-> FALSE, bidStatus |-> "null", bidError |-> "null",
   isPlacingBid |-> FALSE,
   decrypting |-> [f \in Fields |-> 0], shown |-> [f \in Fields |-> NoShow],
   decryptError |-> "null"]

\* AuctionApp: the list it shows (the ids of its items, newest first), isLoading
\* and error; the position of loadAuctions, the count it read, the index of its
\* loop and the items built so far.
NoItem == [id |-> 0, name |-> "", startPrice |-> 0, highestBidHandle |-> 0,
           lastBidHandle |-> 0]

NoList ==
  [pc |-> "idle", auctions |-> <<>>, isLoading |-> FALSE, error |-> "null",
   total |-> 0, idx |-> 0, item |-> NoItem, items |-> <<>>]

\* CreateAuctionForm: the two inputs, isSubmitting, statusMessage and error; the
\* position of handleSubmit with the arguments it validated; what the last
\* submission was made with and whether it sent a transaction.
FormNames == {"", " ", "Widget"}
FormPrices == {"", "0", "1", "-1"}
NaN == 0 - 2

NoForm ==
  [pc |-> "idle", name |-> "", startPrice |-> "", isSubmitting |-> FALSE,
   statusMessage |-> "null", error |-> "null",
   trimmedName |-> "", numericStart |-> 0,
   submitted |-> [made |-> FALSE, canTransact |-> FALSE, name |-> "",
                  startPrice |-> ""],
   sent |-> FALSE]

InitClient == [task |-> NoTask, card |-> NoCard, list |-> NoList, form |-> NoForm]

\* ----------------------------------------------------------- actions

Install(w) ==
  /\ auctionCount' = w.auctionCount
  /\ auctions' = w.auctions
  /\ plain' = w.plain
  /\ acl' = w.acl
  /\ events' = w.events
  /\ last' = w.last

Init ==
  /\ auctionCount = InitWorld.auctionCount
  /\ auctions = InitWorld.auctions
  /\ plain = InitWorld.plain
  /\ acl = InitWorld.acl
  /\ events = InitWorld.events
  /\ last = InitWorld.last
  /\ now = 0
  /\ txs = 0
  /\ history = <<>>
  /\ twin = InitWorld
  /\ client = InitClient

Transactions == {"createAuction", "bid", "checkEnded"}

Views == {"getAuctionInfo", "getEncryptedHighestBid", "getEncryptedHighestBidder"}

\* What a call leaves behind. A transaction that ran to its end is committed. A
\* reverted transaction is rolled back, and a view is only read: neither leaves
\* anything behind, and the latest committed transaction stays the one it was.
Settle(w, r) ==
  IF ~r.last.ok THEN w
  ELSE IF r.last.op \in Views THEN [r EXCEPT !.last = w.last]
  ELSE r

Committed(r) == IF r.last.ok THEN 1 ELSE 0

CreateAuction(name, startPrice, caller) ==
  /\ auctionCount < MaxAuctions
  /\ txs < MaxTx
  /\ LET r == createAuction(World, name, startPrice, caller, now)
     IN Install(Settle(World, r)) /\ txs' = txs + Committed(r)
  /\ UNCHANGED <<now, history>>

GetAuctionInfo(id) ==
  /\ Install(Settle(World, getAuctionInfo(World, id)))
  /\ UNCHANGED <<now, txs, history>>

GetEncryptedHighestBidder(id) ==
  /\ Install(Settle(World, getEncryptedHighestBidder(World, id)))
  /\ UNCHANGED <<now, txs, history>>

GetEncryptedHighestBid(id) ==
  /\ Install(Settle(World, getEncryptedHighestBid(World, id)))
  /\ UNCHANGED <<now, txs, history>>

Bid(id, value, proofOk, caller) ==
  /\ txs < MaxTx
  /\ LET r == bid(World, id, value, proofOk, caller, now)
     IN /\ Install(Settle(World, r))
        /\ txs' = txs + Committed(r)
        /\ history' =
             IF r.last.ok
             THEN Append(history, [id |-> id, caller |-> caller, value |-> value,
                                   time |-> now])
             ELSE history
  /\ UNCHANGED now

CheckEnded(id, caller) ==
  /\ txs < MaxTx
  /\ LET r == checkEnded(World, id, caller, now)
     IN Install(Settle(World, r)) /\ txs' = txs + Committed(r)
  /\ UNCHANGED <<now, history>>

\* The block clock moves on between transactions.
Tick ==
  /\ \E t \in BlockTimes : t > now /\ now' = t
  /\ UNCHANGED <<auctionCount, auctions, plain, acl, events, last, txs, history>>

Next ==
  \/ \E name \in Names, sp \in Values, c \in Callers :
       CreateAuction(name, sp, c) /\ UNCHANGED <<twin, client>>
  \/ \E id \in IdSpace : GetAuctionInfo(id) /\ UNCHANGED <<twin, client>>
  \/ \E id \in IdSpace : GetEncryptedHighestBidder(id) /\ UNCHANGED <<twin, client>>
  \/ \E id \in IdSpace : GetEncryptedHighestBid(id) /\ UNCHANGED <<twin, client>>
  \/ \E id \in IdSpace, v \in Values, c \in Callers :
       Bid(id, v, TRUE, c) /\ UNCHANGED <<twin, client>>
  \/ \E id \in IdSpace, c \in Callers :
       Bid(id, NoValue, FALSE, c) /\ UNCHANGED <<twin, client>>
  \/ \E id \in IdSpace, c \in Callers : CheckEnded(id, c) /\ UNCHANGED <<twin, client>>
  \/ Tick /\ UNCHANGED <<twin, client>>

Spec == Init /\ [][Next]_vars

\* Two runs side by side: the same transactions by the same callers at the same
\* block times with the same proof validity, but bid plaintexts chosen
\* independently in the two runs. (The views change neither run; the name of an
\* auction is public and the same in both runs, so one name is enough here.)
NextNI ==
  \/ \E name \in {"Widget"}, sp \in Values, c \in Callers :
       /\ CreateAuction(name, sp, c)
       /\ twin' = Settle(twin, createAuction(twin, name, sp, c, now))
       /\ UNCHANGED client
  \/ \E id \in IdSpace, v \in Values, v2 \in Values, c \in Callers :
       /\ Bid(id, v, TRUE, c)
       /\ twin' = Settle(twin, bid(twin, id, v2, TRUE, c, now))
       /\ UNCHANGED client
  \/ \E id \in IdSpace, c \in Callers :
       /\ Bid(id, NoValue, FALSE, c)
       /\ twin' = Settle(twin, bid(twin, id, NoValue, FALSE, c, now))
       /\ UNCHANGED client
  \/ \E id \in IdSpace, c \in Callers :
       /\ CheckEnded(id, c)
       /\ twin' = Settle(twin, checkEnded(twin, id, c, now))
       /\ UNCHANGED client
  \/ Tick /\ UNCHANGED <<twin, client>>

SpecNI == Init /\ [][NextNI]_vars

\* The auctions followed through time: block times before, exactly at and after
\* the end of the window that starts at time 0, and offers up to one above every
\* start price, so that a leader can be displaced more than once. (Names, the
\* creator, the views and rejected calls play no part in the leader or the clock.)
ClockTimes == {0, Window, Window + 1}

Offers == 0..(MaxValue + 1)

TickClock ==
  /\ \E t \in ClockTimes : t > now /\ now' = t
  /\ UNCHANGED <<auctionCount, auctions, plain, acl, events, last, txs, history>>

NextClock ==
  \/ \E sp \in Values : CreateAuction("Widget", sp, "alice") /\ UNCHANGED <<twin, client>>
  \/ \E id \in IdSpace, v \in Offers, c \in Callers :
       Bid(id, v, TRUE, c) /\ UNCHANGED <<twin, client>>
  \/ \E id \in IdSpace, c \in Callers : CheckEnded(id, c) /\ UNCHANGED <<twin, client>>
  \/ TickClock /\ UNCHANGED <<twin, client>>

SpecClock == Init /\ [][NextClock]_vars

\* ----------------------------------------------------------- client steps

chain == <<auctionCount, auctions, plain, acl, events, last, now, txs, history>>

\* What a user decryption of a handle that a static call returned can give. The
\* call was only simulated: its ciphertext and its grants were never committed.
\* The decryption yields the plaintext the simulation computed, or an answer
\* without a value for that handle, or it is refused.
StaticDecryptions == {"value", "missing", "refused"}

\* auction:bid, first part: encrypt the value, send the bid and wait for it.
TaskBid(id, v) ==
  /\ client.task.pc = "idle"
  /\ Bid(id, v, TRUE, Signer)
  /\ LET r == bid(World, id, v, TRUE, Signer, now)
     IN client' =
          [client EXCEPT !.task =
             IF r.last.ok
             THEN [NoTask EXCEPT !.pc = "sent", !.id = id, !.value = v,
                                 !.outcome = r.plain[r.last.out.h].val]
             ELSE [NoTask EXCEPT !.pc = "failed", !.id = id, !.value = v]]

\* auction:bid, second part: the same bid again, as a static call.
TaskStaticCall ==
  /\ client.task.pc = "sent"
  /\ LET r == bid(World, client.task.id, client.task.value, TRUE, Signer, now)
     IN client' =
          [client EXCEPT !.task =
             IF r.last.ok
             THEN [@ EXCEPT !.pc = "called", !.returned = r.last.out.h,
                            !.simulated = r.plain[r.last.out.h].val]
             ELSE [@ EXCEPT !.pc = "failed"]]
  /\ UNCHANGED chain

\* auction:bid, last part: decrypt the returned handle and print the value.
TaskDecrypt ==
  /\ client.task.pc = "called"
  /\ \E d \in StaticDecryptions \ {"missing"} :
       client' =
         [client EXCEPT !.task =
            IF d = "value"
            THEN [@ EXCEPT !.pc = "done", !.clear = client.task.simulated]
            ELSE [@ EXCEPT !.pc = "failed"]]
  /\ UNCHANGED chain

\* The task run once, among the transactions of another account.
NextTask ==
  \/ \E sp \in Values :
       CreateAuction("Widget", sp, "bob") /\ UNCHANGED <<twin, client>>
  \/ \E id \in IdSpace, v \in Values :
       Bid(id, v, TRUE, "bob") /\ UNCHANGED <<twin, client>>
  \/ \E id \in IdSpace, v \in Offers : TaskBid(id, v) /\ UNCHANGED twin
  \/ TaskStaticCall /\ UNCHANGED twin
  \/ TaskDecrypt /\ UNCHANGED twin

SpecTask == Init /\ [][NextTask]_vars

\* The handles a card of auction id is given as props (highestBidHandle and
\* lastBidHandle of its AuctionItem): those of the auction's record.
PropsOf(id) ==
  [f \in Fields |->
     IF f = "highest" THEN auctions[id].highestBid ELSE auctions[id].lastBidTime]

\* A card is rendered for an auction of the list.
CardMount(id) ==
  /\ ~client.card.mounted
  /\ auctions[id].created
  /\ client' = [client EXCEPT !.card =
                  [NoCard EXCEPT !.mounted = TRUE, !.id = id, !.props = PropsOf(id)]]
  /\ UNCHANGED chain

\* catch and finally of handleBid.
BidFailed(card) ==
  [card EXCEPT !.pc = "done", !.bidError = "Bid failed", !.isPlacingBid = FALSE]

\* handleBid up to the try block: the wallet and the amount are checked.
CardHandleBid(ready, v) ==
  /\ client.card.mounted
  /\ client.card.pc = "idle"
  /\ ~client.card.isPlacingBid
  /\ client' =
       [client EXCEPT !.card =
          IF ~ready
          THEN [@ EXCEPT !.bidStatus = "null",
                         !.bidError = "Connect your wallet to continue"]
          ELSE IF v <= 0
          THEN [@ EXCEPT !.bidStatus = "null",
                         !.bidError = "Enter a valid bid amount"]
          ELSE [@ EXCEPT !.pc = "static", !.value = v, !.isPlacingBid = TRUE,
                         !.bidError = "null",
                         !.bidStatus = "Encrypting bid and preparing transaction..."]]
  /\ UNCHANGED chain

\* handleBid: the signer, the encrypted input and the static call of bid.
CardStaticCall(signerOk) ==
  /\ client.card.pc = "static"
  /\ LET r == bid(World, client.card.id, client.card.value, TRUE, Signer, now)
     IN client' =
          [client EXCEPT !.card =
             IF signerOk /\ r.last.ok
             THEN [@ EXCEPT !.pc = "send", !.returned = r.last.out.h,
                            !.simulated = r.plain[r.last.out.h].val]
             ELSE BidFailed(@)]
  /\ UNCHANGED chain

\* handleBid: the bid transaction is sent and waited for.
CardSendBid ==
  /\ client.card.pc = "send"
  /\ Bid(client.card.id, client.card.value, TRUE, Signer)
  /\ LET r == bid(World, client.card.id, client.card.value, TRUE, Signer, now)
     IN client' =
          [client EXCEPT !.card =
             IF r.last.ok
             THEN [@ EXCEPT !.pc = "decrypt", !.outcome = r.plain[r.last.out.h].val,
                            !.bidStatus = "Waiting for confirmation..."]
             ELSE BidFailed(@)]

\* handleBid: the handle of the static call is decrypted and the status is set.
CardBidResult ==
  /\ client.card.pc = "decrypt"
  /\ \E d \in StaticDecryptions :
       LET isHighest == d = "value" /\ client.card.simulated
       IN client' =
            [client EXCEPT !.card =
               IF d = "refused"
               THEN BidFailed(@)
               ELSE [@ EXCEPT !.pc = "done", !.isPlacingBid = FALSE,
                              !.bidStatus =
                                 IF isHighest THEN "Your bid is now the highest."
                                 ELSE "Bid submitted but not the highest."]]
  /\ UNCHANGED chain


\* The list was reloaded and the card is rendered again with the handles read
\* now; the effect on [highestBidHandle, lastBidHandle, id] clears what is shown.
CardRefresh ==
  /\ client.card.mounted
  /\ PropsOf(client.card.id) # client.card.props
  /\ client' = [client EXCEPT !.card.props = PropsOf(client.card.id),
                              !.card.shown = [f \in Fields |-> NoShow]]
  /\ UNCHANGED chain

\* handleDecryptHighest / handleDecryptLastBidTime up to the await: the request
\* carries the handle the card has at that moment.
CardDecrypt(f, ready) ==
  /\ client.card.mounted
  /\ client.card.decrypting[f] = 0
  /\ client' =
       [client EXCEPT !.card =
          IF ready
          THEN [@ EXCEPT !.decryptError = "null",
                         !.decrypting[f] = client.card.props[f]]
          ELSE [@ EXCEPT !.decryptError = "Connect your wallet to continue"]]
  /\ UNCHANGED chain

\* The decryption comes back: the value of the handle it was asked for is shown
\* (a block time as the date it stands for), or that there is no access yet, or
\* decryptError is set.
CardDecrypted(f) ==
  /\ client.card.decrypting[f] # 0
  /\ LET h == client.card.decrypting[f]
     IN \E d \in {"missing", "refused"} :
          client' =
            [client EXCEPT !.card =
               IF Signer \in acl[h]
               THEN [@ EXCEPT !.decrypting[f] = 0,
                              !.shown[f] = [kind |-> "value", val |-> plain[h].val,
                                            of |-> h]]
               ELSE IF d = "missing"
               THEN [@ EXCEPT !.decrypting[f] = 0,
                              !.shown[f] = [kind |-> "You do not have access yet",
                                            val |-> 0, of |-> h]]
               ELSE [@ EXCEPT !.decrypting[f] = 0,
                              !.decryptError = "Unable to decrypt"]]
  /\ UNCHANGED chain

\* One card in the browser of the signer, among the transactions of another
\* account.
NextCard ==
  \/ \E sp \in Values :
       CreateAuction("Widget", sp, "bob") /\ UNCHANGED <<twin, client>>
  \/ \E id \in IdSpace, v \in Offers :
       Bid(id, v, TRUE, "bob") /\ UNCHANGED <<twin, client>>
  \/ \E id \in IdSpace : CardMount(id) /\ UNCHANGED twin
  \/ \E ready \in BOOLEAN, v \in Offers : CardHandleBid(ready, v) /\ UNCHANGED twin
  \/ \E signerOk \in BOOLEAN : CardStaticCall(signerOk) /\ UNCHANGED twin
  \/ CardSendBid /\ UNCHANGED twin
  \/ CardBidResult /\ UNCHANGED twin
  \/ CardRefresh /\ UNCHANGED twin
  \/ \E f \in Fields, ready \in BOOLEAN : CardDecrypt(f, ready) /\ UNCHANGED twin
  \/ \E f \in Fields : CardDecrypted(f) /\ UNCHANGED twin

SpecCard == Init /\ [][NextCard]_vars

\* A call of a function the deployed contract does not define: the contract has
\* no fallback, the call reverts.
getEncryptedLastBidTime(w, id) ==
  Revert(w, "getEncryptedLastBidTime", id, "NO_SUCH_FUNCTION")

\* catch and finally of loadAuctions.
LoadFailed(list, err) ==
  [list EXCEPT !.pc = "done", !.error = err, !.isLoading = FALSE]

\* loadAuctions up to its first read (without a public client it returns at
\* once); the refresh button is disabled while a load runs.
LoadAuctions ==
  /\ client.list.pc \in {"idle", "done"}
  /\ client' = [client EXCEPT !.list =
                  [@ EXCEPT !.pc = "count", !.isLoading = TRUE, !.error = "null"]]
  /\ UNCHANGED chain

\* auctionCount is read: an empty list when it is zero, else the loop starts at
\* the newest auction.
LoadCount ==
  /\ client.list.pc = "count"
  /\ client' = [client EXCEPT !.list =
                  IF auctionCount = 0
                  THEN [@ EXCEPT !.pc = "done", !.total = 0, !.auctions = <<>>,
                                 !.isLoading = FALSE]
                  ELSE [@ EXCEPT !.pc = "info", !.total = auctionCount,
                                 !.idx = auctionCount, !.items = <<>>]]
  /\ UNCHANGED chain

\* getAuctionInfo(idx): the answer is read as [name, startPrice, createdAt], so
\* the second component it holds is taken for the start price.
LoadInfo ==
  /\ client.list.pc = "info"
  /\ LET r == getAuctionInfo(World, client.list.idx)
     IN client' = [client EXCEPT !.list =
                     IF r.last.ok
                     THEN [@ EXCEPT !.pc = "highest",
                                    !.item = [NoItem EXCEPT !.id = client.list.idx,
                                                !.name = r.last.out.name,
                                                !.startPrice = r.last.out.n]]
                     ELSE LoadFailed(@, r.last.err)]
  /\ UNCHANGED chain

\* getEncryptedHighestBid(idx).
LoadHighest ==
  /\ client.list.pc = "highest"
  /\ LET r == getEncryptedHighestBid(World, client.list.idx)
     IN client' = [client EXCEPT !.list =
                     IF r.last.ok
                     THEN [@ EXCEPT !.pc = "last",
                                    !.item.highestBidHandle = r.last.out.h]
                     ELSE LoadFailed(@, r.last.err)]
  /\ UNCHANGED chain

\* getEncryptedLastBidTime(idx), the item is pushed and the loop goes on; after
\* the oldest auction the list is set.
LoadLastBid ==
  /\ client.list.pc = "last"
  /\ LET r == getEncryptedLastBidTime(World, client.list.idx)
         items == Append(client.list.items,
                         [client.list.item EXCEPT !.lastBidHandle = r.last.out.h])
     IN client' = [client EXCEPT !.list =
                     IF ~r.last.ok
                     THEN LoadFailed(@, r.last.err)
                     ELSE IF client.list.idx > 1
                     THEN [@ EXCEPT !.pc = "info", !.items = items,
                                    !.idx = client.list.idx - 1]
                     ELSE [@ EXCEPT !.pc = "done", !.items = items,
                                    !.auctions = items, !.isLoading = FALSE]]
  /\ UNCHANGED chain

\* The list of one browser among the transactions of the accounts.
NextList ==
  \/ \E name \in Names, sp \in Values, c \in Callers :
       CreateAuction(name, sp, c) /\ UNCHANGED <<twin, client>>
  \/ \E id \in IdSpace, v \in Values, c \in Callers :
       Bid(id, v, TRUE, c) /\ UNCHANGED <<twin, client>>
  \/ Tick /\ UNCHANGED <<twin, client>>
  \/ LoadAuctions /\ UNCHANGED twin
  \/ LoadCount /\ UNCHANGED twin
  \/ LoadInfo /\ UNCHANGED twin
  \/ LoadHighest /\ UNCHANGED twin
  \/ LoadLastBid /\ UNCHANGED twin

SpecList == Init /\ [][NextList]_vars

\* String.prototype.trim on the names the form is given.
Trim(name) == IF name = " " THEN "" ELSE name

\* Number(text) on the texts the price input can hold.
NumberOf(text) ==
  CASE text = "" -> 0
    [] text = "0" -> 0
    [] text = "1" -> 1
    [] text = "-1" -> 0 - 1
    [] OTHER -> NaN

IsFinite(n) == n # NaN

\* handleSubmit up to the try block, on the inputs as they stand.
FormSubmit(canTransact, name, startPrice) ==
  /\ client.form.pc = "idle"
  /\ LET trimmedName == Trim(name)
         numericStart == NumberOf(startPrice)
         typed == [client.form EXCEPT
                     !.name = name, !.startPrice = startPrice, !.sent = FALSE,
                     !.submitted = [made |-> TRUE, canTransact |-> canTransact,
                                    name |-> name, startPrice |-> startPrice]]
     IN client' = [client EXCEPT !.form =
                     IF ~canTransact
                     THEN [typed EXCEPT
                             !.error = "Connect your wallet to create an auction"]
                     ELSE IF trimmedName = ""
                     THEN [typed EXCEPT !.error = "Auction name is required"]
                     ELSE IF ~IsFinite(numericStart) \/ numericStart < 0
                     THEN [typed EXCEPT
                             !.error = "Starting price must be a positive number"]
                     ELSE [typed EXCEPT
                             !.pc = "signer", !.isSubmitting = TRUE,
                             !.error = "null",
                             !.statusMessage = "Awaiting wallet confirmation...",
                             !.trimmedName = trimmedName,
                             !.numericStart = numericStart]]
  /\ UNCHANGED chain

\* catch and finally of handleSubmit.
FormFailed(signerOk) ==
  /\ client.form.pc = "signer"
  /\ client' = [client EXCEPT !.form =
                  [@ EXCEPT !.pc = "idle", !.isSubmitting = FALSE,
                            !.error =
                               IF signerOk
                               THEN "Failed to create auction: rejected"
                               ELSE "Failed to create auction: Wallet signer not available"]]
  /\ UNCHANGED chain

\* The try block of handleSubmit: createAuction is sent and waited for, the
\* inputs are cleared, onCreated is awaited; finally.
FormSend ==
  /\ client.form.pc = "signer"
  /\ CreateAuction(client.form.trimmedName, client.form.numericStart, Signer)
  /\ client' = [client EXCEPT !.form =
                  [@ EXCEPT !.pc = "idle", !.isSubmitting = FALSE, !.sent = TRUE,
                            !.statusMessage = "Auction created successfully",
                            !.name = "", !.startPrice = ""]]

\* The form of one browser among the transactions of another account.
NextForm ==
  \/ \E sp \in Values :
       CreateAuction("Widget", sp, "bob") /\ UNCHANGED <<twin, client>>
  \/ \E id \in IdSpace, v \in Values :
       Bid(id, v, TRUE, "bob") /\ UNCHANGED <<twin, client>>
  \/ \E canTransact \in BOOLEAN, name \in FormNames, startPrice \in FormPrices :
       FormSubmit(canTransact, name, startPrice) /\ UNCHANGED twin
  \/ \E signerOk \in BOOLEAN : FormFailed(signerOk) /\ UNCHANGED twin
  \/ FormSend /\ UNCHANGED twin

SpecForm == Init /\ [][NextForm]_vars

\* ----------------------------------------------------------- reading a state

\* What an authorized decryption of handle h yields.
Dec(h) == plain[h].val

Existing == {i \in IdSpace : auctions[i].created}

BidsOn(i) == {k \in 1..Len(history) : history[k].id = i}

MaxOf(S) == CHOOSE m \in S : \A x \in S : x <= m

\* What a run keeps besides the receipt of its latest transaction.
Kept(w) ==
  [auctionCount |-> w.auctionCount, auctions |-> w.auctions, plain |-> w.plain,
   acl |-> w.acl, events |-> w.events]

\* The step just taken committed a bid: last' holds its inputs and its result.
BidStep == Len(history') = Len(history) + 1

\* ----------------------------------------------------------- C1

\* C1: after every evaluated bid the plaintext of highestBid is the maximum of
\* the start price and all bid values evaluated so far on that auction (so it
\* never decreases and is never below the start price).
C1_LeaderIsMax ==
  \A i \in Existing :
    Dec(auctions[i].highestBid) =
      MaxOf({Dec(auctions[i].startPrice)} \cup {history[k].value : k \in BidsOn(i)})

\* An auction that took a raising bid and then a lower one.
C1_Witness ==
  \E i \in Existing :
    \E k1, k2 \in BidsOn(i) :
      /\ k1 < k2
      /\ history[k2].value < history[k1].value
      /\ Dec(auctions[i].startPrice) < history[k1].value
      /\ Dec(auctions[i].highestBid) = history[k1].value

\* ----------------------------------------------------------- C2

\* The plaintexts of the leader triple of auction i.
Leader(i) ==
  <<Dec(auctions[i].highestBid), Dec(auctions[i].highestBidder),
    Dec(auctions[i].lastBidTime)>>

LeaderNext(i) ==
  <<plain'[auctions'[i].highestBid].val, plain'[auctions'[i].highestBidder].val,
    plain'[auctions'[i].lastBidTime].val>>

C2_StepAllOrNothing ==
  BidStep =>
    LET i == last'.id
        raised == last'.value > Dec(auctions[i].highestBid)
    IN /\ plain'[last'.out.h].val = raised
       /\ LeaderNext(i) =
            IF raised THEN <<last'.value, last'.caller, now>> ELSE Leader(i)

\* The triple is the one written at creation or the one of a single evaluated bid.
C2_TripleOfOneTransition ==
  \A i \in Existing :
    \/ Leader(i) = <<Dec(auctions[i].startPrice), ZeroAddress, auctions[i].createdAt>>
    \/ \E k \in BidsOn(i) :
         Leader(i) = <<history[k].value, history[k].caller, history[k].time>>

\* C2: a bid step is all-or-nothing on the leader triple: isHighest decrypts to
\* true exactly when the bid is strictly above the pre-state highestBid, and then
\* the triple becomes (bid value, caller, time of the bid); otherwise the three
\* plaintexts are unchanged. No state shows a triple mixing two transitions.
C2_AtomicTriple == [][C2_StepAllOrNothing]_vars /\ []C2_TripleOfOneTransition

\* A losing bid by another caller, later than the leading bid: the triple still
\* is the earlier bid's.
C2_Witness ==
  /\ last.op = "bid" /\ last.ok
  /\ ~Dec(last.out.h)
  /\ Dec(auctions[last.id].highestBidder) \in Callers \ {last.caller}
  /\ Dec(auctions[last.id].lastBidTime) < now

\* ----------------------------------------------------------- C3

\* C3: a bid equal to the current highestBid changes neither the plaintext of
\* highestBidder nor that of lastBidTime, and its isHighest decrypts to false.
C3_TieKeepsIncumbent ==
  [][(BidStep /\ last'.value = Dec(auctions[last'.id].highestBid)) =>
       /\ plain'[auctions'[last'.id].highestBidder].val
            = Dec(auctions[last'.id].highestBidder)
       /\ plain'[auctions'[last'.id].lastBidTime].val
            = Dec(auctions[last'.id].lastBidTime)
       /\ plain'[last'.out.h].val = FALSE]_vars

\* A tie against a leading bid of another caller, at a later block time.
C3_Witness ==
  /\ last.op = "bid" /\ last.ok
  /\ last.value = Dec(auctions[last.id].highestBid)
  /\ Dec(auctions[last.id].highestBidder) \in Callers \ {last.caller}
  /\ Dec(auctions[last.id].lastBidTime) < now
  /\ ~Dec(last.out.h)

\* ----------------------------------------------------------- C4

\* What an observer without decryption rights sees of a run: the counter, the
\* records (names, creation times and the handles stored at each position), the
\* kind of every ciphertext, the grants on every handle, the event log and the
\* outcome of the latest call. Plaintexts are not part of it.
Pub(w) ==
  [auctionCount |-> w.auctionCount,
   auctions |-> w.auctions,
   kinds |-> [h \in 1..Len(w.plain) |-> w.plain[h].type],
   acl |-> w.acl,
   events |-> w.events,
   last |-> [w.last EXCEPT !.value = NoValue]]

\* What the caller of a call learns at once: success or the revert reason, and the
\* returned handle or public data.
Answer(r) == [r.last EXCEPT !.value = NoValue]

SameAnswers ==
  /\ \A id \in IdSpace :
       /\ Answer(getAuctionInfo(World, id)) = Answer(getAuctionInfo(twin, id))
       /\ Answer(getEncryptedHighestBid(World, id))
            = Answer(getEncryptedHighestBid(twin, id))
       /\ Answer(getEncryptedHighestBidder(World, id))
            = Answer(getEncryptedHighestBidder(twin, id))
  /\ \A id \in IdSpace, c \in Callers :
       Answer(bid(World, id, NoValue, FALSE, c, now))
         = Answer(bid(twin, id, NoValue, FALSE, c, now))

\* C4: two runs of the same calls that differ only in the bid plaintexts are
\* publicly indistinguishable: same success or failure of each call, same
\* events, auctionCount, names, createdAt and grants on every handle position.
\* (A transaction that commits in one run only shows in the records and the log.)
C4_NoBranchOnSecret == Pub(World) = Pub(twin) /\ SameAnswers

\* The two runs disagree on the outcome of the latest bid: it leads in one run
\* and loses in the other.
C4_Witness ==
  /\ last.op = "bid" /\ last.ok
  /\ twin.last.op = "bid" /\ twin.last.ok
  /\ Dec(last.out.h)
  /\ ~twin.plain[twin.last.out.h].val
  /\ Len(history) >= 2
  /\ Dec(auctions[last.id].highestBid) # twin.plain[twin.auctions[last.id].highestBid].val

\* ----------------------------------------------------------- C5

\* C5: rivals never see each other's raw offers: nobody but the contract is
\* authorized on a handle whose plaintext is the bid value another principal
\* submitted (the current highestBid handle included).
C5_RivalsNeverSeeOffers ==
  \A h \in 1..Len(plain) :
    plain[h].by \in Callers => acl[h] \subseteq {Core, plain[h].by}

\* ----------------------------------------------------------- C6

\* C6: when bid(id, ...) by caller c has completed, c is authorized on the
\* returned isHighest handle and on the three current leader handles of the
\* auction, hence on the handle getEncryptedHighestBid(id) returns right after,
\* whether or not the bid became the leader.
C6_BidderMayDecryptLeader ==
  (last.op = "bid" /\ last.ok) =>
    /\ last.caller \in acl[last.out.h]
    /\ last.caller \in acl[auctions[last.id].highestBid]
    /\ last.caller \in acl[auctions[last.id].highestBidder]
    /\ last.caller \in acl[auctions[last.id].lastBidTime]
    /\ last.caller \in acl[getEncryptedHighestBid(World, last.id).last.out.h]

\* A bid that lost has just completed.
C6_Witness ==
  /\ last.op = "bid" /\ last.ok
  /\ ~Dec(last.out.h)
  /\ last.value < Dec(auctions[last.id].highestBid)

\* ----------------------------------------------------------- C7

\* C7: for every existing auction the contract itself is authorized on the
\* handles now stored in startPrice, highestBid, highestBidder and lastBidTime.
C7_CoreKeepsAccess ==
  \A i \in Existing :
    /\ Core \in acl[auctions[i].startPrice]
    /\ Core \in acl[auctions[i].highestBid]
    /\ Core \in acl[auctions[i].highestBidder]
    /\ Core \in acl[auctions[i].lastBidTime]

\* Two auctions, one of them with its leader handles replaced by a bid.
C7_Witness ==
  /\ Cardinality(Existing) = 2
  /\ \E i \in Existing :
       /\ BidsOn(i) # {}
       /\ auctions[i].highestBid # auctions[i].startPrice

\* ----------------------------------------------------------- C8

\* C8 as stated: every handle an operation returns to its caller (bid's
\* isHighest, checkEnded's ended, the handles the two handle views return) is
\* authorized for that caller when the operation completes. A view answers
\* every caller alike, so whoever calls it would have to be authorized.
C8_EveryReturnedHandleGranted ==
  /\ (last.op \in {"bid", "checkEnded"}) => last.caller \in acl[last.out.h]
  /\ \A i \in Existing, c \in Callers :
       /\ c \in acl[getEncryptedHighestBid(World, i).last.out.h]
       /\ c \in acl[getEncryptedHighestBidder(World, i).last.out.h]

\* The caller of the latest bid evaluated on auction i, if any.
LatestBidders(i) ==
  {history[k].caller : k \in {k \in BidsOn(i) : \A m \in BidsOn(i) : m <= k}}

\* C8 amended: the handles that bid and checkEnded produce and return
\* (isHighest, ended) are authorized for the caller when the operation completes.
\* The handles the two handle views return come without a grant: a caller is
\* authorized on them only through the latest bid on that auction being its own.
C8_ProducedHandleGranted ==
  /\ (last.op \in {"bid", "checkEnded"}) =>
       /\ last.out.h # 0
       /\ last.caller \in acl[last.out.h]
  /\ \A i \in Existing :
       /\ acl[getEncryptedHighestBid(World, i).last.out.h] \cap Callers
            = LatestBidders(i)
       /\ acl[getEncryptedHighestBidder(World, i).last.out.h] \cap Callers
            = LatestBidders(i)

\* checkEnded has just returned an ended flag that decrypts to true.
C8_Witness ==
  /\ last.op = "checkEnded" /\ last.ok
  /\ Dec(last.out.h)
  /\ acl[last.out.h] = {last.caller}

\* ----------------------------------------------------------- C9

ViewResults(id) ==
  {getAuctionInfo(World, id), getEncryptedHighestBid(World, id),
   getEncryptedHighestBidder(World, id)}

\* C9: the three views are read-only: called in any reachable state with any id,
\* succeeding or failing, they leave auctionCount, every auction record, the ACL
\* table (and the ciphertexts) and the event log as they were.
C9_ViewsReadOnly ==
  \A id \in IdSpace : \A r \in ViewResults(id) : Kept(r) = Kept(World)

\* A state where the handle view succeeds on an auction whose highestBid a caller
\* is authorized on, and fails on another id.
C9_Witness ==
  \E i \in IdSpace, j \in IdSpace :
    /\ getEncryptedHighestBid(World, i).last.ok
    /\ acl[getEncryptedHighestBid(World, i).last.out.h] \cap Callers # {}
    /\ ~getEncryptedHighestBid(World, j).last.ok
    /\ getEncryptedHighestBid(World, j).last.err = "AUCTION_NOT_FOUND"

\* ----------------------------------------------------------- C10

\* C10: the winner can decrypt the winning bid: whenever highestBidder of an
\* auction decrypts to a real principal, that principal is authorized on the
\* handle now stored in highestBid.
C10_WinnerMayDecrypt ==
  \A i \in Existing :
    Dec(auctions[i].highestBidder) \in Callers =>
      Dec(auctions[i].highestBidder) \in acl[auctions[i].highestBid]

\* ----------------------------------------------------------- C11

\* What each operation taking an id answers when called with id in the current
\* state, for every caller and both kinds of bid input.
CallsOn(id) ==
  ViewResults(id)
    \cup {bid(World, id, v, TRUE, c, now) : v \in Values, c \in Callers}
    \cup {bid(World, id, NoValue, FALSE, c, now) : c \in Callers}
    \cup {checkEnded(World, id, c, now) : c \in Callers}

\* C11: every operation taking an auction id, called with an id for which no
\* auction exists, fails with AUCTION_NOT_FOUND and changes nothing: the counter,
\* every record, the ciphertexts, the ACL table and the event log stay as they were.
C11_NotFoundClosure ==
  \A id \in IdSpace \ Existing :
    \A r \in CallsOn(id) :
      /\ ~r.last.ok
      /\ r.last.err = "AUCTION_NOT_FOUND"
      /\ Kept(r) = Kept(World)
      /\ Settle(World, r) = World

\* A registry with only id 1 present, already bid on: id 2 and id 0 are unknown.
C11_Witness ==
  /\ Existing = {1}
  /\ BidsOn(1) # {}
  /\ ~getAuctionInfo(World, 2).last.ok
  /\ ~bid(World, 0, 1, TRUE, "alice", now).last.ok

\* ----------------------------------------------------------- C12

\* C12: a bid on an existing auction whose input the engine's import rejects
\* aborts: it returns nothing, and the leader fields, the ciphertexts, the ACL
\* table, the counter and the event log (no BidSubmitted) are exactly as before.
C12_RejectedImportAborts ==
  \A i \in Existing, c \in Callers :
    LET r == bid(World, i, NoValue, FALSE, c, now)
    IN /\ ~r.last.ok
       /\ r.last.err = "INVALID_PROOF"
       /\ r.last.out = NoOut
       /\ Kept(r) = Kept(World)
       /\ Settle(World, r) = World

\* An auction led by alice, on which a bid of bob with a bad proof is rejected.
C12_Witness ==
  \E i \in Existing :
    /\ Dec(auctions[i].highestBidder) = "alice"
    /\ bid(World, i, NoValue, FALSE, "bob", now).last.err = "INVALID_PROOF"

\* ----------------------------------------------------------- C13

\* The AuctionCreated events, in the order of the creations.
Creations == SelectSeq(events, LAMBDA e : e.kind = "AuctionCreated")

\* C13: ids are dense and sequential from 1: an auction exists for id exactly when
\* 1 <= id <= auctionCount (none for id 0), auctionCount is the number of
\* creations, the k-th creation got id k and that id still holds the auction
\* created then, and createAuction returns the new value of the counter.
C13_DenseIds ==
  /\ Existing = 1..auctionCount
  /\ Len(Creations) = auctionCount
  /\ \A k \in 1..Len(Creations) :
       /\ Creations[k].id = k
       /\ Creations[k].arg = auctions[k].name
  /\ (last.op = "createAuction") => (last.ok /\ last.out.n = auctionCount)

\* A second auction, under another name, created after a bid on the first.
C13_Witness ==
  /\ auctionCount = 2
  /\ last.op = "createAuction" /\ last.out.n = 2
  /\ auctions[1].name # auctions[2].name
  /\ BidsOn(1) # {}

\* ----------------------------------------------------------- C14

\* The step just taken committed a createAuction.
CreateStep == txs' = txs + 1 /\ last'.op = "createAuction"

\* The fields of a record that are written at creation only.
Fixed(a) ==
  [name |-> a.name, startPrice |-> a.startPrice, createdAt |-> a.createdAt,
   created |-> a.created]

C14_BidFrame ==
  BidStep =>
    /\ auctionCount' = auctionCount
    /\ \A j \in IdSpace \ {last'.id} : auctions'[j] = auctions[j]
    /\ Fixed(auctions'[last'.id]) = Fixed(auctions[last'.id])

C14_CreateFrame == CreateStep => \A j \in Existing : auctions'[j] = auctions[j]

C14_ExistsForever ==
  \A j \in Existing :
    /\ auctions'[j].created
    /\ Fixed(auctions'[j]) = Fixed(auctions[j])
    /\ plain'[auctions'[j].startPrice] = plain[auctions[j].startPrice]

\* C14: a successful bid changes nothing in the registry but highestBid,
\* highestBidder and lastBidTime of its auction; createAuction changes no existing
\* record; so an auction, once it exists, exists in every later state with the
\* same name, startPrice (handle and plaintext) and createdAt.
C14_Frame == [][C14_BidFrame /\ C14_CreateFrame /\ C14_ExistsForever]_vars

\* Two auctions, a bid on one of them: its leader handles were replaced, the
\* other auction's were not.
C14_Witness ==
  /\ last.op = "bid" /\ last.ok
  /\ Cardinality(Existing) = 2
  /\ auctions[last.id].highestBid # auctions[last.id].startPrice
  /\ \E j \in Existing \ {last.id} : auctions[j].highestBid = auctions[j].startPrice

\* ----------------------------------------------------------- C15

\* The step just taken committed a checkEnded.
CheckStep == txs' = txs + 1 /\ last'.op = "checkEnded"

\* What the handle returned by checkEnded(id), called in w at block time t,
\* decrypts to.
EndedAt(w, id, t) ==
  LET r == checkEnded(w, id, AnyCaller, t)
  IN r.plain[r.last.out.h].val

C15_CheckStepValue ==
  CheckStep =>
    /\ last'.out.h > Len(plain)
    /\ plain'[last'.out.h].val
         = (Dec(auctions[last'.id].lastBidTime) + 600 <= now)

C15_EveryCallValue ==
  \A i \in Existing :
    EndedAt(World, i, now) = (Dec(auctions[i].lastBidTime) + 600 <= now)

\* C15: checkEnded(id) on an existing auction returns a fresh handle that
\* decrypts to true exactly when (plaintext lastBidTime + 600) <= now, now being
\* the block time of that call: the value is computed anew at every call.
C15_EndedIffWindowElapsed == [][C15_CheckStepValue]_vars /\ []C15_EveryCallValue

\* Two calls on an auction nobody bid on: the earlier one decrypted to false, the
\* later one, made exactly 600 seconds after lastBidTime, decrypts to true.
C15_Witness ==
  /\ last.op = "checkEnded" /\ last.ok
  /\ auctionCount = 1 /\ Len(history) = 0
  /\ now = Dec(auctions[1].lastBidTime) + 600
  /\ Dec(last.out.h)
  /\ \E h \in 1..Len(plain) :
       h < last.out.h /\ plain[h].type = "bool" /\ ~plain[h].val

\* ----------------------------------------------------------- C16

\* The world after the step.
WorldNext ==
  [auctionCount |-> auctionCount', auctions |-> auctions', plain |-> plain',
   acl |-> acl', events |-> events', last |-> last']

\* A bid with a valid input on an existing auction is never turned away.
C16_BidsStayAcceptable ==
  \A i \in Existing, v \in Offers, c \in Callers :
    bid(World, i, v, TRUE, c, now).last.ok

\* A bid committed when checkEnded would already decrypt to true is evaluated
\* like any other, and once it has displaced the leader checkEnded decrypts to
\* false again.
C16_BidAfterWindow ==
  (BidStep /\ EndedAt(World, last'.id, now)) =>
    LET i == last'.id
        raised == last'.value > Dec(auctions[i].highestBid)
    IN /\ plain'[last'.out.h].val = raised
       /\ LeaderNext(i) =
            IF raised THEN <<last'.value, last'.caller, now>> ELSE Leader(i)
       /\ raised => ~EndedAt(WorldNext, i, now')

\* C16: the timeout is pull-only: no operation closes an auction; a bid with a
\* valid proof on an existing auction is evaluated at any time, also when
\* checkEnded at that time would decrypt to true, and displaces the leader if it
\* is strictly higher, after which checkEnded decrypts to false again.
C16_PullOnlyTimeout == [][C16_BidAfterWindow]_vars /\ []C16_BidsStayAcceptable

\* checkEnded decrypted to true on the only auction, then the first bid on it
\* displaced the leader, and checkEnded would now decrypt to false.
C16_Witness ==
  /\ last.op = "bid" /\ last.ok
  /\ auctionCount = 1 /\ Len(history) = 1
  /\ Dec(last.out.h)
  /\ \E h \in 1..Len(plain) :
       h < last.out.h /\ plain[h].type = "bool" /\ plain[h].val
  /\ Dec(auctions[1].lastBidTime) = now
  /\ ~EndedAt(World, 1, now)

\* ----------------------------------------------------------- C17

\* C17: auctions close by themselves after ten minutes of inactivity: once 600
\* seconds have passed on an auction without a new bid, the stored leader is
\* final, and no later bid changes that auction's highestBid or highestBidder.
C17_LeaderFinalAfterTimeout ==
  [][(BidStep /\ EndedAt(World, last'.id, now)) =>
       /\ plain'[auctions'[last'.id].highestBid].val
            = Dec(auctions[last'.id].highestBid)
       /\ plain'[auctions'[last'.id].highestBidder].val
            = Dec(auctions[last'.id].highestBidder)]_vars

\* ----------------------------------------------------------- C18

\* The highest of the start price and the bids evaluated on auction i before the
\* k-th bid of the history.
Standing(i, k) ==
  MaxOf({Dec(auctions[i].startPrice)}
          \cup {history[m].value : m \in {m \in BidsOn(i) : m < k}})

\* The bids that strictly raised highestBid of auction i when they were evaluated.
Raising(i) == {k \in BidsOn(i) : history[k].value > Standing(i, k)}

\* C18: for every existing auction: if no bid strictly above startPrice has been
\* evaluated, highestBid decrypts to startPrice, highestBidder to the no-bidder
\* sentinel and lastBidTime to the creation time; otherwise the three decrypt to
\* the value, the caller and the time of the bid that most recently strictly
\* raised highestBid.
C18_LeaderProvenance ==
  \A i \in Existing :
    IF ~\E k \in BidsOn(i) : history[k].value > Dec(auctions[i].startPrice)
    THEN /\ Raising(i) = {}
         /\ Leader(i) =
              <<Dec(auctions[i].startPrice), ZeroAddress, auctions[i].createdAt>>
    ELSE LET k == MaxOf(Raising(i))
         IN Leader(i) = <<history[k].value, history[k].caller, history[k].time>>

\* Two bids by different callers at different times raised the same auction one
\* after the other: the leader is the second.
C18_Witness ==
  \E i \in Existing :
    \E k1, k2 \in Raising(i) :
      /\ k1 < k2
      /\ history[k1].caller # history[k2].caller
      /\ history[k1].time < history[k2].time
      /\ Dec(auctions[i].highestBidder) = history[k2].caller

\* ----------------------------------------------------------- C19

C19_StepEvents ==
  /\ CreateStep =>
       events' = Append(events, [kind |-> "AuctionCreated", id |-> last'.out.n,
                                 arg |-> auctions'[last'.out.n].name])
  /\ BidStep =>
       events' = Append(events, [kind |-> "BidSubmitted", id |-> last'.id,
                                 arg |-> last'.caller])
  /\ ~(CreateStep \/ BidStep) => events' = events

\* Failed calls, views and checkEnded, made in the current state, log nothing.
C19_SilentCalls ==
  \A id \in IdSpace :
    \A r \in CallsOn(id) :
      (~r.last.ok \/ r.last.op \in Views \/ r.last.op = "checkEnded")
        => r.events = events

\* An event carries an auction id and a name or a caller, nothing else.
C19_EventFields ==
  \A k \in 1..Len(events) :
    \/ events[k] \in [kind : {"AuctionCreated"}, id : Existing, arg : Names]
    \/ events[k] \in [kind : {"BidSubmitted"}, id : Existing, arg : Callers]

\* C19: events match operations one to one: a successful createAuction logs
\* exactly one AuctionCreated(id, name) with the id it returns, an evaluated bid
\* logs exactly one BidSubmitted(id, caller) whether or not it leads, failed
\* calls, views and checkEnded log nothing, and no event carries a bid value or
\* the outcome of the comparison.
C19_EventsMatchOperations ==
  [][C19_StepEvents]_vars /\ [](C19_SilentCalls /\ C19_EventFields)

\* A bid that lost was logged like the leading bid before it.
C19_Witness ==
  /\ last.op = "bid" /\ last.ok
  /\ ~Dec(last.out.h)
  /\ Len(events) = 3
  /\ events[2].kind = "BidSubmitted"
  /\ events[3] = [kind |-> "BidSubmitted", id |-> last.id, arg |-> last.caller]
  /\ Dec(auctions[last.id].highestBidder) = events[2].arg

\* ----------------------------------------------------------- C20

\* Every authorization of a is still one of b.
Within(a, b) ==
  /\ Len(a) <= Len(b)
  /\ \A h \in 1..Len(a) : a[h] \subseteq b[h]

\* No call made in the current state, whatever its outcome, takes a grant away.
C20_NoCallRevokes ==
  /\ \A id \in IdSpace : \A r \in CallsOn(id) : Within(acl, r.acl)
  /\ auctionCount < MaxAuctions =>
       \A name \in Names, sp \in Values :
         Within(acl, createAuction(World, name, sp, AnyCaller, now).acl)

\* C20: grants are never revoked: from one state to the next the set of
\* (handle, principal) authorizations only grows, so a principal once authorized
\* on a handle is authorized on that handle in every later state.
C20_GrantsOnlyGrow == [][Within(acl, acl')]_vars /\ []C20_NoCallRevokes

\* alice is still authorized on a leader handle of her bid that bob's later bid
\* on the same auction has replaced in the record.
C20_Witness ==
  /\ last.op = "bid" /\ last.ok /\ last.caller = "bob"
  /\ \E k \in BidsOn(last.id) : history[k].caller = "alice"
  /\ \E h \in 1..Len(acl) :
       /\ acl[h] = {Core, "alice"}
       /\ plain[h].type = "u32"
       /\ h # auctions[last.id].highestBid

\* ----------------------------------------------------------- C21

\* C21: once createAuction(name, p) has returned id, getAuctionInfo(id) answers
\* with name as its first component and the plaintext start price p as its
\* second, in every later state.
C21_InfoHoldsStartPrice ==
  \A i \in Existing :
    LET r == getAuctionInfo(World, i)
    IN /\ r.last.ok
       /\ r.last.out.name = auctions[i].name
       /\ r.last.out.n = Dec(auctions[i].startPrice)

\* ----------------------------------------------------------- C22

\* The handles a call that turned World into r has produced.
Produced(r) == (Len(plain) + 1)..Len(r.plain)

C22_SameForEveryCaller ==
  auctionCount < MaxAuctions =>
    \A name \in Names, sp \in Values :
      LET r1 == createAuction(World, name, sp, "alice", now)
          r2 == createAuction(World, name, sp, "bob", now)
          id == r1.last.out.n
      IN /\ r1 = r2
         /\ r1.auctions[id].createdAt = now
         /\ r1.plain[r1.auctions[id].highestBidder].val = ZeroAddress
         /\ r1.events[Len(r1.events)]
              = [kind |-> "AuctionCreated", id |-> id, arg |-> name]
         /\ \A h \in Produced(r1) : r1.acl[h] = {Core}

\* C22: createAuction does not depend on who calls it: made in the same state at
\* the same time with the same name and start price, the calls of two different
\* callers give the same id, the same record (createdAt from the block clock),
\* the same event and the same grants, to the contract only.
C22_CreateIgnoresCaller ==
  /\ C22_SameForEveryCaller
  /\ (last.op = "createAuction") =>
       LET a == auctions[last.out.n]
       IN /\ acl[a.startPrice] = {Core}
          /\ acl[a.highestBidder] = {Core}
          /\ acl[a.lastBidTime] = {Core}
          /\ Dec(a.highestBidder) = ZeroAddress

\* A second auction has just been created, at a later block time than the first
\* and after a bid on the first.
C22_Witness ==
  /\ last.op = "createAuction" /\ last.out.n = 2
  /\ auctions[2].createdAt = now /\ auctions[1].createdAt < now
  /\ BidsOn(1) # {}

\* ----------------------------------------------------------- C23

\* The bids evaluated on auction i, in the order of their arrival.
Arrivals(i) ==
  [k \in 1..Cardinality(BidsOn(i)) |->
     history[CHOOSE x \in BidsOn(i) :
               Cardinality({y \in BidsOn(i) : y < x}) = k - 1]]

\* The total orders of n bids.
Orders(n) == {f \in [1..n -> 1..n] : \A a, b \in 1..n : a # b => f[a] # f[b]}

\* A registry holding one auction, created at time t with start price sp.
Fresh(sp, t) == Settle(InitWorld, createAuction(InitWorld, "Widget", sp, AnyCaller, t))

\* The bids of a sequence applied one after the other to auction 1 of w.
RECURSIVE ReplayBids(_, _)
ReplayBids(w, bids) ==
  IF Len(bids) = 0 THEN w
  ELSE ReplayBids(Settle(w, bid(w, 1, Head(bids).value, TRUE, Head(bids).caller,
                                Head(bids).time)),
                  Tail(bids))

\* The bids of auction i arriving in the order f, at the block times of the
\* arrivals of the run.
Reordered(i, f) ==
  [k \in 1..Cardinality(BidsOn(i)) |->
     [caller |-> Arrivals(i)[f[k]].caller, value |-> Arrivals(i)[f[k]].value,
      time |-> Arrivals(i)[k].time]]

\* In world w, auction id holds the maximum of sp and the bids, led by the caller
\* of the earliest bid of the sequence that carries it.
FirstAtTopLeads(w, id, sp, bids) ==
  LET top == MaxOf({sp} \cup {bids[k].value : k \in 1..Len(bids)})
      first == CHOOSE k \in 1..Len(bids) :
                 /\ bids[k].value = top
                 /\ \A m \in 1..Len(bids) : bids[m].value = top => k <= m
  IN /\ w.plain[w.auctions[id].highestBid].val = top
     /\ top > sp => w.plain[w.auctions[id].highestBidder].val = bids[first].caller

\* C23: the order in which the host lets bids arrive is all that resolves them:
\* applied in any total order, the bids evaluated on an auction give the same
\* plaintext highestBid, and when it exceeds startPrice the highestBidder is the
\* caller of the earliest bid of that order with the maximum value; of two equal
\* top bids from different callers, the one ordered first leads.
C23_ArrivalOrderDecides ==
  \A i \in Existing :
    LET sp == Dec(auctions[i].startPrice)
    IN /\ FirstAtTopLeads(World, i, sp, Arrivals(i))
       /\ \A f \in Orders(Cardinality(BidsOn(i))) :
            LET w == ReplayBids(Fresh(sp, auctions[i].createdAt), Reordered(i, f))
            IN /\ FirstAtTopLeads(w, 1, sp, Reordered(i, f))
               /\ w.plain[w.auctions[1].highestBid].val = Dec(auctions[i].highestBid)

\* Two equal bids above the start price from different callers: the one that
\* arrived first leads.
C23_Witness ==
  \E i \in Existing :
    /\ Len(Arrivals(i)) = 2
    /\ Arrivals(i)[1].value = Arrivals(i)[2].value
    /\ Arrivals(i)[1].value > Dec(auctions[i].startPrice)
    /\ Arrivals(i)[1].caller # Arrivals(i)[2].caller
    /\ Dec(auctions[i].highestBidder) = Arrivals(i)[1].caller

\* ----------------------------------------------------------- C24

C24_CheckStepFrame ==
  CheckStep =>
    /\ auctionCount' = auctionCount
    /\ auctions' = auctions
    /\ events' = events
    /\ \A h \in 1..Len(plain) : plain'[h] = plain[h] /\ acl'[h] = acl[h]
    /\ \A h \in Produced(WorldNext) :
         acl'[h] = IF h = last'.out.h THEN {last'.caller} ELSE {}
    /\ \A c \in Callers :
         LET r == checkEnded(WorldNext, last'.id, c, now')
         IN r.plain[r.last.out.h].val = plain'[last'.out.h].val

\* C24: checkEnded on an existing auction is a pure pull: it leaves auctionCount
\* and every field of every record (the three leader handles included) unchanged
\* and logs nothing; all it does is grant the ended handle it has just computed
\* to its caller, so repeated at the same time it decrypts to the same result.
C24_CheckEndedPurePull == [][C24_CheckStepFrame]_vars

\* checkEnded called on an auction by someone who is not its leader.
C24_Witness ==
  /\ last.op = "checkEnded" /\ last.ok
  /\ Dec(auctions[last.id].highestBidder) \in Callers \ {last.caller}
  /\ acl[last.out.h] = {last.caller}
  /\ last.caller \notin acl[auctions[last.id].highestBid]

\* ----------------------------------------------------------- C25

\* C25: the 'isHighest (decrypted)' value the auction:bid task prints is the
\* isHighest outcome of the bid transaction the task has just committed: true
\* exactly when that bid was strictly above highestBid when it was executed.
C25_TaskPrintsOutcome ==
  (client.task.pc = "done") => (client.task.clear = client.task.outcome)

\* ----------------------------------------------------------- C26

\* C26: in the bid flow of an AuctionCard the status shown, 'Your bid is now the
\* highest.' or 'Bid submitted but not the highest.', agrees with the isHighest
\* outcome of the committed bid transaction, however other callers' bids fall
\* between the static call and the transaction.
C26_StatusAgreesWithOutcome ==
  LET card == client.card
  IN (card.pc = "done" /\ card.bidError = "null") =>
       /\ card.bidStatus = "Your bid is now the highest." => card.outcome
       /\ card.bidStatus = "Bid submitted but not the highest." => ~card.outcome

\* ----------------------------------------------------------- C27

\* C27: with auctionCount N >= 1, loadAuctions finishes with error = null,
\* isLoading = false and a list of exactly N items with ids N, N-1, ..., 1, each
\* holding the handles read for that auction; with auctionCount 0 it finishes
\* with an empty list.
C27_ListLoaded ==
  LET list == client.list
  IN (list.pc = "done") =>
       /\ ~list.isLoading
       /\ list.total = 0 => list.auctions = <<>>
       /\ list.total >= 1 =>
            /\ list.error = "null"
            /\ Len(list.auctions) = list.total
            /\ \A k \in 1..Len(list.auctions) :
                 list.auctions[k].id = list.total + 1 - k

\* ----------------------------------------------------------- C28

\* C28: handleSubmit sends a createAuction transaction only when the wallet can
\* transact, the trimmed name is non-empty and the starting price is a positive
\* number; in every other case it sets an error, sends nothing and leaves
\* isSubmitting false.
C28_SendsOnlyValid ==
  LET form == client.form
      valid == /\ form.submitted.canTransact
               /\ Trim(form.submitted.name) # ""
               /\ IsFinite(NumberOf(form.submitted.startPrice))
               /\ NumberOf(form.submitted.startPrice) > 0
  IN /\ form.sent => valid
     /\ (form.submitted.made /\ ~valid) =>
          /\ form.pc = "idle"
          /\ form.error # "null"
          /\ ~form.isSubmitting

\* ----------------------------------------------------------- C29

\* The three leader handles of a record.
LeaderHandles(a) == {a.highestBid, a.highestBidder, a.lastBidTime}

C29_BidStepReplaces ==
  BidStep =>
    LET a == auctions'[last'.id]
    IN /\ Cardinality(LeaderHandles(a)) = 3
       /\ \A h \in LeaderHandles(a) :
            /\ h > Len(plain)
            /\ acl'[h] = {Core, last'.caller}

C29_OnlyCoreAndBidder ==
  (last.op = "bid") =>
    \A h \in LeaderHandles(auctions[last.id]) : acl[h] = {Core, last.caller}

\* C29: every evaluated bid, losing or not, replaces the three leader handles of
\* its auction with handles produced in that transaction, and no grant is
\* carried over: right after a bid by c the principals authorized on the current
\* highestBid, highestBidder and lastBidTime handles are exactly the contract
\* and c.
C29_FreshLeaderHandles == [][C29_BidStepReplaces]_vars /\ []C29_OnlyCoreAndBidder

\* bob's bid lost to alice's: the leader handles are new, and alice, who leads,
\* is not authorized on them.
C29_Witness ==
  /\ last.op = "bid" /\ last.ok /\ last.caller = "bob"
  /\ ~Dec(last.out.h)
  /\ Dec(auctions[last.id].highestBidder) = "alice"
  /\ acl[auctions[last.id].highestBid] = {Core, "bob"}

\* ----------------------------------------------------------- C30

\* C30: an AuctionCard never shows a stale decryption: a decrypted highest bid
\* (or last bid time) that is displayed is the decryption of the handle the card
\* has now, however a running decryption and a change of the handles interleave.
C30_NoStaleDecryption ==
  \A f \in Fields :
    client.card.shown[f].kind = "value" =>
      client.card.shown[f].of = client.card.props[f]

====
